---- MODULE Spec2Model ----
(***************************************************************************)
(* Model of config.go: the enrollment wizard (enroll), the configuration   *)
(* loader (loadConfig) and the connection bootstrap (NewXMPPConn).         *)
(*                                                                         *)
(* Strings the code takes apart (account, pin, port answer) are sequences  *)
(* of one-character strings.  Strings the code only stores, compares with  *)
(* the empty string or hands to a library are TLA+ strings.                *)
(***************************************************************************)
EXTENDS Integers, Sequences, FiniteSets, TLC

----------------------------------------------------------------------------
(* Bounds of the model *)

\* longest account string enumerated over the alphabet {u, @}
MaxAccountLen == 3
\* longest proxy list of a parsed configuration record
MaxProxies == 2
\* number of lines the terminal delivers before every further read fails
MaxReads == 8

----------------------------------------------------------------------------
(* Program constants *)

\* len(certSHA256) != 32
PinLength == 32
\* config.Port = 5222 ; portStr = "5222"
DefaultPort == 5222
\* config.Port > 65535
MaxPort == 65535

torProxyURL == "socks5://127.0.0.1:9050"
debugLogPath == "/tmp/xmpp-client-debug.log"

\* "jabber.ccc.de"
CCC == <<"j","a","b","b","e","r",".","c","c","c",".","d","e">>
\* "riseup.net"
Riseup == <<"r","i","s","e","u","p",".","n","e","t">>
\* "jabber.calyxinstitute.org"
Calyx == <<"j","a","b","b","e","r",".","c","a","l","y","x","i","n","s","t","i","t","u","t","e",".","o","r","g">>
\* "jabber.otr.im"
OtrIm == <<"j","a","b","b","e","r",".","o","t","r",".","i","m">>
\* "wtfismyip.com"
Wtf == <<"w","t","f","i","s","m","y","i","p",".","c","o","m">>

knownTorDomain ==
    (CCC :> "okj7xc6j2szr2y75.onion") @@
    (Riseup :> "4cjw6cwpeaeppfqz.onion") @@
    (Calyx :> "ijeeynrc6x2uy5ob.onion") @@
    (OtrIm :> "5rgdtlawqkcplz75.onion") @@
    (Wtf :> "ofkztxcohimx34la.onion")

----------------------------------------------------------------------------
(* Library functions used by the code *)

\* position of the first occurrence of sep in s, 0 if there is none
Index(s, sep) ==
    IF \E i \in 1..Len(s) : s[i] = sep
    THEN CHOOSE i \in 1..Len(s) : s[i] = sep /\ \A j \in 1..(i - 1) : s[j] # sep
    ELSE 0

\* strings.SplitN(s, sep, 2): cut at the first separator only
SplitN(s, sep) ==
    LET i == Index(s, sep)
    IN  IF i = 0 THEN <<s>>
        ELSE <<SubSeq(s, 1, i - 1), SubSeq(s, i + 1, Len(s))>>

\* every answer taken as a yes
ParseYes_Always(line) == TRUE

\* coyconf.ParseYes
ParseYes(line) == line \in {"y", "Y", "yes", "Yes"}

\* url.Parse on the URL strings of the model: ok, and the scheme when ok
URLParse(s) ==
    CASE s = "socks5://127.0.0.1:9050" -> [ok |-> TRUE, scheme |-> "socks5", raw |-> s]
      [] s = "socks5://10.0.0.1:1080" -> [ok |-> TRUE, scheme |-> "socks5", raw |-> s]
      [] s = "http://10.0.0.2:8080" -> [ok |-> TRUE, scheme |-> "http", raw |-> s]
      [] OTHER -> [ok |-> FALSE, scheme |-> "", raw |-> s]

\* proxy.Direct
Direct == [isNil |-> FALSE, chain |-> <<>>]
\* the nil proxy.Dialer
NilDialer == [isNil |-> TRUE, chain |-> <<>>]

\* proxy.FromURL(u, forward): only socks5 is a known scheme; the new dialer
\* reaches its proxy through forward, so it is the outermost hop of the chain
FromURL(u, forward) ==
    IF u.scheme = "socks5"
    THEN [ok |-> TRUE, dialer |-> [isNil |-> FALSE, chain |-> <<u.raw>> \o forward.chain]]
    ELSE [ok |-> FALSE, dialer |-> NilDialer]

\* value of one hexadecimal digit, -1 for any other character
fromHexChar(c) ==
    CASE c = "0" -> 0 [] c = "1" -> 1 [] c = "2" -> 2 [] c = "3" -> 3
      [] c = "4" -> 4 [] c = "5" -> 5 [] c = "6" -> 6 [] c = "7" -> 7
      [] c = "8" -> 8 [] c = "9" -> 9
      [] c \in {"a", "A"} -> 10 [] c \in {"b", "B"} -> 11
      [] c \in {"c", "C"} -> 12 [] c \in {"d", "D"} -> 13
      [] c \in {"e", "E"} -> 14 [] c \in {"f", "F"} -> 15
      [] OTHER -> -1

RECURSIVE DecodePairs(_)
DecodePairs(s) ==
    IF Len(s) < 2 THEN <<>>
    ELSE <<16 * fromHexChar(s[1]) + fromHexChar(s[2])>> \o DecodePairs(SubSeq(s, 3, Len(s)))

\* a decoder that drops a trailing odd digit instead of rejecting it
DecodeString_OddAccepted(s) ==
    IF \E i \in 1..Len(s) : fromHexChar(s[i]) < 0
    THEN [ok |-> FALSE, bytes |-> <<>>]
    ELSE [ok |-> TRUE, bytes |-> DecodePairs(s)]

\* hex.DecodeString: an odd length or a non-hex character is an error
DecodeString(s) ==
    IF Len(s) % 2 = 1 \/ \E i \in 1..Len(s) : fromHexChar(s[i]) < 0
    THEN [ok |-> FALSE, bytes |-> <<>>]
    ELSE [ok |-> TRUE, bytes |-> DecodePairs(s)]

\* fmt.Sprintf("%s:%d", host, port)
Sprintf(host, port) == <<host, ":", port>>

\* strconv.Atoi on the port answers: digits with an optional sign
RECURSIVE digitsValue(_)
digitsValue(s) ==
    IF Len(s) = 0 THEN 0
    ELSE 10 * digitsValue(SubSeq(s, 1, Len(s) - 1)) + fromHexChar(s[Len(s)])

Atoi(s) ==
    LET signed == Len(s) > 0 /\ s[1] \in {"+", "-"}
        body == IF signed THEN Tail(s) ELSE s
        isNum == Len(body) > 0 /\ \A i \in 1..Len(body) : fromHexChar(body[i]) \in 0..9
    IN  IF ~isNum THEN [ok |-> FALSE, n |-> 0]
        ELSE [ok |-> TRUE,
              n |-> IF signed /\ s[1] = "-" THEN 0 - digitsValue(body) ELSE digitsValue(body)]

----------------------------------------------------------------------------
(* Input sets *)

RECURSIVE Rep(_, _)
Rep(s, n) == IF n = 0 THEN <<>> ELSE s \o Rep(s, n - 1)

SeqsUpTo(S, n) == UNION {[1..k -> S] : k \in 0..n}

\* account strings: every string over {u, @} up to MaxAccountLen, and one
\* account at each of two domains of the hidden-service table
AccountStrings ==
    SeqsUpTo({"u", "@"}, MaxAccountLen) \cup {<<"u", "@">> \o CCC, <<"u", "@">> \o Riseup}

ProxyURLs == {"socks5://127.0.0.1:9050", "socks5://10.0.0.1:1080", "http://10.0.0.2:8080", ":bad"}

\* pin strings: absent, 32 bytes of well-formed hex, one byte short,
\* one byte long, an odd number of digits, a character that is no hex digit
PinStrings ==
    { <<>>,
      Rep(<<"A", "b">>, PinLength - 1) \o <<"9", "0">>,
      Rep(<<"0", "f">>, PinLength - 1),
      Rep(<<"0", "f">>, PinLength + 1),
      Rep(<<"0", "f">>, PinLength - 1) \o <<"0">>,
      Rep(<<"0", "f">>, PinLength - 1) \o <<"0", "g">> }

\* xmpp.Resolve: what a successful lookup can return, an empty target with
\* port 0 included
ResolveResults == {[host |-> "xmpp.example.com", port |-> 5269], [host |-> "", port |-> 0]}
\* host and port of a failed lookup
NoHost == [host |-> "", port |-> 0]
\* one xmpp.Resolve call: the caller, the domain asked for, the outcome
ResolveCall(by, d, ok, res) ==
    [by |-> by, domain |-> d, ok |-> ok, host |-> res.host, port |-> res.port]

ZeroConfig ==
    [Filename |-> "", Account |-> <<>>, Password |-> "", RawLogFile |-> "",
     UseTor |-> FALSE, PrivateKey |-> "", Server |-> "", Port |-> 0,
     Proxies |-> <<>>, ServerCertificateSHA256 |-> <<>>,
     OTRAutoAppendTag |-> FALSE, OTRAutoStartSession |-> FALSE, OTRAutoTearDown |-> FALSE]

\* the records coyconf.ParseConfig can return
ParsedConfigs ==
    { [ZeroConfig EXCEPT !.Account = a, !.Password = pw,
                         !.Server = s, !.Port = p, !.Proxies = px,
                         !.ServerCertificateSHA256 = pin] :
        a \in AccountStrings, pw \in {"", "secret"}, s \in {"", "xmpp.example.com"},
        p \in {0, DefaultPort}, px \in SeqsUpTo(ProxyURLs, MaxProxies), pin \in PinStrings }

\* what term.ReadLine can return at each prompt
AccountLines == AccountStrings
YesNoLines == {"", "y", "n"}
KeyFileLines == {"", "otr.key", "missing.key", "garbage.key"}
ProxyLines == {""} \cup ProxyURLs
ServerLines == {"", "xmpp.example.com"}
PortLines ==
    { <<>>, <<"4","4","3">>, <<"0">>, <<"-","1">>, <<"6","5","5","3","5">>,
      <<"6","5","5","3","6">>, <<"x">> }

----------------------------------------------------------------------------
(* State *)

VARIABLES
    pc,          \* the statement the program is at
    configFile,  \* *configFile, the -config-file flag
    config,      \* the configuration record
    parsed,      \* outcome of coyconf.ParseConfig: "none", "ok", "failed"
    err,         \* loadConfig's err
    ret,         \* what loadConfig returned: [config, password, err]
    enrollRet,   \* what enroll returned: "none", "true", "false"
    domain,      \* enroll's domain
    proxyStr,    \* enroll's proxyStr
    readCount,   \* number of term.ReadLine calls made
    lastRead,    \* the last term.ReadLine call: the prompt it was made at, its error,
                 \* and the line read (chars when the code takes the line apart)
    resolved,    \* the xmpp.Resolve calls made: [by, domain, ok, host, port]
    saved,       \* the records config.Save was called on
    askCalls,    \* number of ui.AskForPassword calls made
    askResult,   \* outcome of ui.AskForPassword: "none", "ok", "failed"
    nx,          \* NewXMPPConn's locals and result
    steps,       \* the steps of NewXMPPConn that have run
    transport,   \* the stream opened by dialer.Dial: "none", "open", "closed"
    dials        \* arguments of the dialer.Dial and xmpp.Dial calls made

vars == <<pc, configFile, config, parsed, err, ret, enrollRet, domain, proxyStr,
          readCount, lastRead, resolved, saved, askCalls, askResult, nx, steps, transport,
          dials>>

loadVars == <<configFile, parsed, err, ret, saved, askCalls, askResult>>
enrollVars == <<enrollRet, domain, proxyStr, readCount, lastRead>>
connVars == <<nx, steps, transport, dials>>

NoRet == [returned |-> FALSE, config |-> "nil", password |-> "", err |-> "nil"]

NoXMPPConfig ==
    [TrustedAddress |-> FALSE, ServerCertificateSHA256 |-> <<>>, RootCAs |-> "default",
     Conn |-> "nil"]

ZeroNX ==
    [user |-> <<>>, domain |-> <<>>, addr |-> <<>>, addrTrusted |-> FALSE,
     dialer |-> NilDialer, certSHA256 |-> <<>>, xmppConfig |-> NoXMPPConfig,
     password |-> "", caCertErr |-> "unset", conn |-> "nil", err |-> "nil"]

Init ==
    /\ pc = "FindConfigFile"
    /\ configFile \in {"", "/etc/xmpp-client.json"}
    /\ config = ZeroConfig
    /\ parsed = "none"
    /\ err = "nil"
    /\ ret = NoRet
    /\ enrollRet = "none"
    /\ domain = <<>>
    /\ proxyStr = ""
    /\ readCount = 0
    /\ lastRead = [at |-> "none", err |-> FALSE, line |-> "", chars |-> <<>>]
    /\ resolved = <<>>
    /\ saved = <<>>
    /\ askCalls = 0
    /\ askResult = "none"
    /\ nx = ZeroNX
    /\ steps = <<>>
    /\ transport = "none"
    /\ dials = <<>>

----------------------------------------------------------------------------
(* loadConfig *)

\* if len(*configFile) == 0 { configFile, err = coyconf.FindConfigFile(...) }
FindConfigFile ==
    /\ pc = "FindConfigFile"
    /\ IF configFile = ""
       THEN \/ /\ configFile' = "/home/user/.xmpp-client"
               /\ pc' = "ParseConfig"
               /\ UNCHANGED <<err, ret>>
            \/ /\ err' = "FindConfigFile failed"
               /\ ret' = [returned |-> TRUE, config |-> "nil", password |-> "", err |-> err']
               /\ pc' = "loadConfigReturned"
               /\ UNCHANGED configFile
       ELSE /\ pc' = "ParseConfig"
            /\ UNCHANGED <<configFile, err, ret>>
    /\ UNCHANGED <<config, parsed, saved, askCalls, askResult>>
    /\ UNCHANGED <<enrollVars, connVars, resolved>>

\* config, err := coyconf.ParseConfig(*configFile); on failure a new record is
\* handed to ui.Enroll, which runs enroll on it
ParseConfig ==
    /\ pc = "ParseConfig"
    /\ \/ /\ \E c \in ParsedConfigs : config' = [c EXCEPT !.Filename = configFile]
          /\ parsed' = "ok"
          /\ err' = "nil"
          /\ pc' = "Password"
       \/ /\ config' = ZeroConfig
          /\ parsed' = "failed"
          /\ err' = "ParseConfig failed"
          /\ pc' = "AccountPrompt"
    /\ UNCHANGED <<configFile, ret, saved, askCalls, askResult>>
    /\ UNCHANGED <<enrollVars, connVars, resolved>>

\* the record saved before the result of ui.Enroll is looked at
EnrollReturned_SaveFirst ==
    /\ pc = "EnrollReturned"
    /\ config' = [config EXCEPT !.Filename = configFile]
    /\ saved' = Append(saved, config')
    /\ IF enrollRet = "false"
       THEN /\ ret' = [returned |-> TRUE, config |-> "config", password |-> "",
                       err |-> "Failed to create config"]
            /\ pc' = "loadConfigReturned"
       ELSE /\ pc' = "Password"
            /\ UNCHANGED ret
    /\ UNCHANGED <<configFile, parsed, err, askCalls, askResult, enrollRet, domain, proxyStr,
                   readCount,
                   lastRead, nx, steps, transport, dials, resolved>>

\* if !ui.Enroll(config) { return ... }; config.Filename = *configFile; config.Save()
EnrollReturned ==
    /\ pc = "EnrollReturned"
    /\ IF enrollRet = "false"
       THEN /\ ret' = [returned |-> TRUE, config |-> "config", password |-> "",
                       err |-> "Failed to create config"]
            /\ pc' = "loadConfigReturned"
            /\ UNCHANGED <<config, saved>>
       ELSE /\ config' = [config EXCEPT !.Filename = configFile]
            /\ saved' = Append(saved, config')
            /\ pc' = "Password"
            /\ UNCHANGED ret
    /\ UNCHANGED <<configFile, parsed, err, askCalls, askResult>>
    /\ UNCHANGED <<enrollVars, connVars, resolved>>

\* the result of ui.AskForPassword kept in a variable of the if block,
\* loadConfig's err left as it was
ErrAfterAsk_Shadowed(old, new) == old

\* password, err = ui.AskForPassword(config) assigns loadConfig's err: line 213
ErrAfterAsk(old, new) == new

\* password := config.Password; ask for it when it is empty; return
Password ==
    /\ pc = "Password"
    /\ IF config.Password = ""
       THEN /\ askCalls' = askCalls + 1
            /\ \/ /\ askResult' = "ok"
                  /\ err' = ErrAfterAsk(err, "nil")
                  /\ ret' = [returned |-> TRUE, config |-> "config", password |-> "typed",
                             err |-> err']
               \/ /\ askResult' = "failed"
                  /\ err' = ErrAfterAsk(err, "AskForPassword failed")
                  /\ ret' = [returned |-> TRUE, config |-> "config", password |-> "",
                             err |-> "AskForPassword failed"]
       ELSE /\ ret' = [returned |-> TRUE, config |-> "config",
                       password |-> config.Password, err |-> err]
            /\ UNCHANGED <<err, askCalls, askResult>>
    /\ pc' = "loadConfigReturned"
    /\ UNCHANGED <<configFile, config, parsed, saved>>
    /\ UNCHANGED <<enrollVars, connVars, resolved>>

----------------------------------------------------------------------------
(* enroll *)

\* term.ReadLine: a line of S, or a failure; after MaxReads lines only failure
ReadLine(S, empty) ==
    {[err |-> TRUE, line |-> empty]} \cup
    (IF readCount < MaxReads THEN {[err |-> FALSE, line |-> l] : l \in S} ELSE {})

\* enroll returning true whatever happened
EnrollReturn_AlwaysTrue(b) ==
    /\ enrollRet' = "true"
    /\ pc' = "EnrollReturned"

\* return from enroll to loadConfig
EnrollReturn(b) ==
    /\ enrollRet' = (IF b THEN "true" ELSE "false")
    /\ pc' = "EnrollReturned"

\* the account loop: lines 34-47
AccountPrompt ==
    /\ pc = "AccountPrompt"
    /\ \E r \in ReadLine(AccountLines, <<>>) :
         /\ readCount' = readCount + 1
         /\ lastRead' = [at |-> pc, err |-> r.err, line |-> "", chars |-> r.line]
         /\ config' = [config EXCEPT !.Account = r.line]
         /\ IF r.err \/ Len(r.line) = 0
            THEN EnrollReturn(FALSE) /\ UNCHANGED domain
            ELSE LET parts == SplitN(r.line, "@")
                 IN  IF Len(parts) # 2
                     THEN UNCHANGED <<pc, enrollRet, domain>>
                     ELSE /\ domain' = parts[2]
                          /\ pc' = "DebugLoggingPrompt"
                          /\ UNCHANGED enrollRet
    /\ UNCHANGED <<proxyStr, loadVars, connVars, resolved>>

\* lines 49-55
DebugLoggingPrompt ==
    /\ pc = "DebugLoggingPrompt"
    /\ \E r \in ReadLine(YesNoLines, "") :
         /\ readCount' = readCount + 1
         /\ lastRead' = [at |-> pc, err |-> r.err, line |-> r.line, chars |-> <<>>]
         /\ IF r.err \/ ~ParseYes(r.line)
            THEN UNCHANGED config
            ELSE config' = [config EXCEPT !.RawLogFile = debugLogPath]
    /\ pc' = "TorPrompt"
    /\ UNCHANGED <<enrollRet, domain, proxyStr, loadVars, connVars, resolved>>

\* lines 57-64
TorPrompt ==
    /\ pc = "TorPrompt"
    /\ \E r \in ReadLine(YesNoLines, "") :
         /\ readCount' = readCount + 1
         /\ lastRead' = [at |-> pc, err |-> r.err, line |-> r.line, chars |-> <<>>]
         /\ IF r.err \/ r.line = "" \/ ~ParseYes(r.line)
            THEN config' = [config EXCEPT !.UseTor = FALSE]
            ELSE config' = [config EXCEPT !.UseTor = TRUE]
    /\ pc' = "PrivateKeyPrompt"
    /\ UNCHANGED <<enrollRet, domain, proxyStr, loadVars, connVars, resolved>>

\* ioutil.ReadFile and priv.Import on the key files of the model
ReadFileOK(f) == f # "missing.key"
\* every file that can be read taken as a key
ImportOK_Ignored(f) == TRUE
\* priv.Import(privKeyBytes): line 81
ImportOK(f) == f = "otr.key"

\* the private-key loop and config.PrivateKey = priv.Serialize(): lines 66-92
PrivateKeyPrompt ==
    /\ pc = "PrivateKeyPrompt"
    /\ \E r \in ReadLine(KeyFileLines, "") :
         /\ readCount' = readCount + 1
         /\ lastRead' = [at |-> pc, err |-> r.err, line |-> r.line, chars |-> <<>>]
         /\ IF r.err
            THEN EnrollReturn(FALSE) /\ UNCHANGED config
            ELSE IF r.line # ""
                 THEN IF ~ReadFileOK(r.line) \/ ~ImportOK(r.line)
                      THEN UNCHANGED <<pc, enrollRet, config>>
                      ELSE /\ config' = [config EXCEPT !.PrivateKey = "imported:" \o r.line]
                           /\ pc' = "FixedPolicy"
                           /\ UNCHANGED enrollRet
                 ELSE /\ config' = [config EXCEPT !.PrivateKey = "generated"]
                      /\ pc' = "FixedPolicy"
                      /\ UNCHANGED enrollRet
    /\ UNCHANGED <<domain, proxyStr, loadVars, connVars, resolved>>

\* lines 94-96
FixedPolicy ==
    /\ pc = "FixedPolicy"
    /\ config' = [config EXCEPT !.OTRAutoAppendTag = TRUE, !.OTRAutoStartSession = TRUE,
                                !.OTRAutoTearDown = FALSE]
    /\ pc' = "TorShortcut"
    /\ UNCHANGED <<enrollVars, loadVars, connVars, resolved>>

\* hiddenService, ok := knownTorDomain[domain]; ok && config.UseTor
\* the table lookup alone, without config.UseTor
ShortcutApplies_IgnoreTor(d, useTor) == d \in DOMAIN knownTorDomain

ShortcutApplies(d, useTor) == d \in DOMAIN knownTorDomain /\ useTor

\* lines 107-116
TorShortcut ==
    /\ pc = "TorShortcut"
    /\ IF ShortcutApplies(domain, config.UseTor)
       THEN /\ config' = [config EXCEPT !.Server = knownTorDomain[domain],
                                        !.Port = DefaultPort,
                                        !.Proxies = <<torProxyURL>>]
            /\ EnrollReturn(TRUE)
       ELSE /\ pc' = "ProxyPrompt"
            /\ UNCHANGED <<config, enrollRet>>
    /\ UNCHANGED <<domain, proxyStr, readCount, lastRead, loadVars, connVars, resolved>>

\* if len(proxyStr) > 0 { config.Proxies = []string{proxyStr} ... }: line 148
\* the test after the proxy loop taken as always true
ProxyConfigured_Always(str) == TRUE

ProxyConfigured(str) == str # ""

\* an empty answer taken as "no proxy" whether or not Tor is used
NoProxyAnswer_IgnoreTor(line, useTor) == line = ""

\* if len(proxyStr) == 0 { if !config.UseTor { break } ... }: lines 129-131
NoProxyAnswer(line, useTor) == line = "" /\ ~useTor

\* the answer checked with url.Parse alone
ProxyAnswerOK_ParseOnly(u) == u.ok

\* url.Parse and proxy.FromURL both succeed: lines 136-144
ProxyAnswerOK(u) == u.ok /\ FromURL(u, Direct).ok

\* the proxy loop and the test that follows it: lines 118-150, 184-186
ProxyPrompt ==
    /\ pc = "ProxyPrompt"
    /\ \E r \in ReadLine(ProxyLines, "") :
         LET none == NoProxyAnswer(r.line, config.UseTor)
             str == IF r.line = "" /\ ~none THEN torProxyURL ELSE r.line
             u == URLParse(str)
         IN  /\ readCount' = readCount + 1
             /\ lastRead' = [at |-> pc, err |-> r.err, line |-> r.line, chars |-> <<>>]
             /\ proxyStr' = (IF r.err THEN r.line ELSE str)
             /\ IF r.err
                THEN EnrollReturn(FALSE) /\ UNCHANGED config
                ELSE IF ~none /\ ~ProxyAnswerOK(u)
                     THEN UNCHANGED <<pc, enrollRet, config>>
                     ELSE IF ProxyConfigured(str)
                          THEN /\ config' = [config EXCEPT !.Proxies = <<str>>]
                               /\ pc' = "ServerPrompt"
                               /\ UNCHANGED enrollRet
                          ELSE EnrollReturn(TRUE) /\ UNCHANGED config
    /\ UNCHANGED <<domain, loadVars, connVars, resolved>>

\* a failed lookup sending the wizard back to the server prompt
LookupFailure_Reprompt == UNCHANGED <<pc, enrollRet>>

\* alert(term, "SRV lookup failed: ...") and return false: lines 157-160
LookupFailure == EnrollReturn(FALSE)

\* the server prompt and the lookup on an empty answer: lines 151-164, 184-186
ServerPrompt ==
    /\ pc = "ServerPrompt"
    /\ \E r \in ReadLine(ServerLines, "") :
         /\ readCount' = readCount + 1
         /\ lastRead' = [at |-> pc, err |-> r.err, line |-> r.line, chars |-> <<>>]
         /\ IF r.err
            THEN /\ config' = [config EXCEPT !.Server = r.line]
                 /\ EnrollReturn(FALSE)
                 /\ UNCHANGED resolved
            ELSE IF r.line = ""
                 THEN \/ /\ resolved' = Append(resolved, ResolveCall("enroll", domain, FALSE, NoHost))
                         /\ config' = [config EXCEPT !.Server = ""]
                         /\ LookupFailure
                      \/ \E res \in ResolveResults :
                           /\ resolved' = Append(resolved, ResolveCall("enroll", domain, TRUE, res))
                           /\ config' = [config EXCEPT !.Server = res.host,
                                                       !.Port = res.port]
                           /\ EnrollReturn(TRUE)
                 ELSE /\ config' = [config EXCEPT !.Server = r.line]
                      /\ pc' = "PortPrompt"
                      /\ UNCHANGED <<enrollRet, resolved>>
    /\ UNCHANGED <<domain, proxyStr, loadVars, connVars>>

\* the range test without its upper bound
PortInvalid_NoUpperBound(a) == ~a.ok \/ a.n <= 0

\* the range test letting 0 through
PortInvalid_ZeroAllowed(a) == ~a.ok \/ a.n < 0 \/ a.n > MaxPort

\* err != nil || config.Port <= 0 || config.Port > 65535: line 175
PortInvalid(a) == ~a.ok \/ a.n <= 0 \/ a.n > MaxPort

\* the port loop: lines 166-180, 184-186
PortPrompt ==
    /\ pc = "PortPrompt"
    /\ \E r \in ReadLine(PortLines, <<>>) :
         /\ readCount' = readCount + 1
         /\ lastRead' = [at |-> pc, err |-> r.err, line |-> "", chars |-> r.line]
         /\ IF r.err
            THEN EnrollReturn(FALSE) /\ UNCHANGED config
            ELSE LET portStr == IF Len(r.line) = 0 THEN <<"5", "2", "2", "2">> ELSE r.line
                     a == Atoi(portStr)
                 IN  /\ config' = [config EXCEPT !.Port = a.n]
                     /\ IF PortInvalid(a)
                        THEN UNCHANGED <<pc, enrollRet>>
                        ELSE EnrollReturn(TRUE)
    /\ UNCHANGED <<domain, proxyStr, loadVars, connVars, resolved>>

----------------------------------------------------------------------------
(* NewXMPPConn, called with the record and password loadConfig returned *)

\* a return that hands back a connection together with the error
Fail_WithConn(e) ==
    /\ nx' = [nx EXCEPT !.err = e, !.conn = "conn"]
    /\ pc' = "Returned"

\* return nil, errors.New(e)
Fail(e) ==
    /\ nx' = [nx EXCEPT !.err = e, !.conn = "nil"]
    /\ pc' = "Returned"

\* parts := strings.SplitN(config.Account, "@", 2): lines 222-229
Split ==
    /\ pc = "loadConfigReturned"
    /\ ret.err = "nil"
    /\ steps' = Append(steps, "split")
    /\ LET parts == SplitN(config.Account, "@")
       IN  IF Len(parts) # 2
           THEN Fail("invalid username (want user@domain)")
           ELSE /\ nx' = [nx EXCEPT !.user = parts[1], !.domain = parts[2],
                                    !.password = ret.password]
                /\ pc' = "Resolve"
    /\ UNCHANGED <<config, loadVars, enrollVars, transport, dials, resolved>>

\* either of Server and Port taken as explicit configuration
ExplicitServer_Either(c) == c.Server # "" \/ c.Port > 0

\* len(config.Server) > 0 && config.Port > 0
ExplicitServer(c) == c.Server # "" /\ c.Port > 0

\* the proxy test off by one
HasProxies_MoreThanOne(c) == Len(c.Proxies) > 1

\* len(config.Proxies) > 0
HasProxies(c) == Len(c.Proxies) > 0

\* lines 231-247
ResolveAddress ==
    /\ pc = "Resolve"
    /\ steps' = Append(steps, "resolve")
    /\ IF ExplicitServer(config)
       THEN /\ nx' = [nx EXCEPT !.addr = Sprintf(config.Server, config.Port),
                                !.addrTrusted = TRUE]
            /\ pc' = "ProxyChain"
            /\ UNCHANGED resolved
       ELSE IF HasProxies(config)
            THEN /\ Fail("Cannot connect via a proxy without Server and Port being set")
                 /\ UNCHANGED resolved
            ELSE \/ /\ resolved' = Append(resolved,
                                            ResolveCall("NewXMPPConn", nx.domain, FALSE, NoHost))
                    /\ Fail("Failed to resolve XMPP server")
                 \/ \E res \in ResolveResults :
                      /\ resolved' = Append(resolved,
                                            ResolveCall("NewXMPPConn", nx.domain, TRUE, res))
                      /\ nx' = [nx EXCEPT !.addr = Sprintf(res.host, res.port)]
                      /\ pc' = "ProxyChain"
    /\ UNCHANGED <<config, loadVars, enrollVars, transport, dials>>

\* the loop run from the first entry to the last
RECURSIVE ProxyLoop_Forward(_, _, _)
ProxyLoop_Forward(P, i, dialer) ==
    IF i < 1 THEN [err |-> "nil", dialer |-> dialer]
    ELSE LET k == Len(P) - i + 1
             u == URLParse(P[k])
             forward == IF dialer.isNil THEN Direct ELSE dialer
             f == FromURL(u, forward)
         IN  IF ~u.ok THEN [err |-> "Failed to parse " \o P[k] \o " as a URL", dialer |-> dialer]
             ELSE IF ~f.ok
                  THEN [err |-> "Failed to parse " \o P[k] \o " as a proxy", dialer |-> dialer]
                  ELSE ProxyLoop_Forward(P, i - 1, f.dialer)

\* for i := len(config.Proxies) - 1; i >= 0; i-- { ... }: lines 249-263,
\* with the list indexed from 1
RECURSIVE ProxyLoop(_, _, _)
ProxyLoop(P, i, dialer) ==
    IF i < 1 THEN [err |-> "nil", dialer |-> dialer]
    ELSE LET u == URLParse(P[i])
             forward == IF dialer.isNil THEN Direct ELSE dialer
             f == FromURL(u, forward)
         IN  IF ~u.ok THEN [err |-> "Failed to parse " \o P[i] \o " as a URL", dialer |-> dialer]
             ELSE IF ~f.ok
                  THEN [err |-> "Failed to parse " \o P[i] \o " as a proxy", dialer |-> dialer]
                  ELSE ProxyLoop(P, i - 1, f.dialer)

ProxyChain ==
    /\ pc = "ProxyChain"
    /\ steps' = Append(steps, "proxyChain")
    /\ LET built == ProxyLoop(config.Proxies, Len(config.Proxies), NilDialer)
       IN  IF built.err # "nil"
           THEN Fail(built.err)
           ELSE /\ nx' = [nx EXCEPT !.dialer = built.dialer]
                /\ pc' = "Pin"
    /\ UNCHANGED <<config, loadVars, enrollVars, transport, dials, resolved>>

\* lines 265-276
Pin ==
    /\ pc = "Pin"
    /\ steps' = Append(steps, "pin")
    /\ IF Len(config.ServerCertificateSHA256) > 0
       THEN LET d == DecodeString(config.ServerCertificateSHA256)
            IN  IF ~d.ok
                THEN Fail("Failed to parse ServerCertificateSHA256 (should be hex string)")
                ELSE IF Len(d.bytes) # PinLength
                     THEN Fail("ServerCertificateSHA256 is not 32 bytes long")
                     ELSE /\ nx' = [nx EXCEPT !.certSHA256 = d.bytes]
                          /\ pc' = "TLSPolicy"
       ELSE /\ pc' = "TLSPolicy"
            /\ UNCHANGED nx
    /\ UNCHANGED <<config, loadVars, enrollVars, transport, dials, resolved>>

\* the CACert root used for every domain
UsesCACert_Always(d) == TRUE

\* domain == "jabber.ccc.de": line 296
UsesCACert(d) == d = CCC

\* xmppConfig := &xmpp.Config{...} and the jabber.ccc.de root pool: lines 278-310;
\* x509.ParseCertificate(caCertRootDER) succeeds or fails
TLSPolicy ==
    /\ pc = "TLSPolicy"
    /\ steps' = Append(steps, "tlsPolicy")
    /\ LET xc == [TrustedAddress |-> nx.addrTrusted,
                  ServerCertificateSHA256 |-> nx.certSHA256,
                  RootCAs |-> "default", Conn |-> "nil"]
       IN  IF UsesCACert(nx.domain)
           THEN \/ nx' = [nx EXCEPT !.xmppConfig = [xc EXCEPT !.RootCAs = "CACert"],
                                    !.caCertErr = "nil"]
                \/ nx' = [nx EXCEPT !.xmppConfig = xc, !.caCertErr = "x509 error"]
           ELSE nx' = [nx EXCEPT !.xmppConfig = xc]
    /\ pc' = "ProxyDial"
    /\ UNCHANGED <<config, loadVars, enrollVars, transport, dials, resolved>>

\* the proxy dial skipped whatever the dialer
DialerSet_Never(d) == FALSE

\* dialer != nil: line 340
DialerSet(d) == ~d.isNil

\* if dialer != nil { xmppConfig.Conn, err = dialer.Dial("tcp", addr) }: lines 340-346
ProxyDial ==
    /\ pc = "ProxyDial"
    /\ IF DialerSet(nx.dialer)
       THEN /\ steps' = Append(steps, "proxyDial")
            /\ dials' = Append(dials, [fn |-> "dialer.Dial", chain |-> nx.dialer.chain,
                                       addr |-> nx.addr, xmppConfig |-> NoXMPPConfig])
            /\ \/ /\ nx' = [nx EXCEPT !.xmppConfig.Conn = "transport"]
                  /\ transport' = "open"
                  /\ pc' = "XMPPDial"
               \/ /\ Fail("Failed to connect via proxy")
                  /\ UNCHANGED transport
       ELSE /\ pc' = "XMPPDial"
            /\ UNCHANGED <<nx, steps, dials, transport>>
    /\ UNCHANGED <<config, loadVars, enrollVars, resolved>>

\* conn, err := xmpp.Dial(addr, user, domain, password, xmppConfig): lines 348-353;
\* nothing here closes xmppConfig.Conn
XMPPDial ==
    /\ pc = "XMPPDial"
    /\ steps' = Append(steps, "xmppDial")
    /\ dials' = Append(dials, [fn |-> "xmpp.Dial", chain |-> <<>>, addr |-> nx.addr,
                               xmppConfig |-> nx.xmppConfig])
    /\ \/ /\ nx' = [nx EXCEPT !.conn = "conn", !.err = "nil"]
          /\ pc' = "Returned"
       \/ Fail("Failed to connect to XMPP server")
    /\ UNCHANGED <<config, loadVars, enrollVars, transport, resolved>>

----------------------------------------------------------------------------

Next ==
    \/ FindConfigFile
    \/ ParseConfig
    \/ AccountPrompt
    \/ DebugLoggingPrompt
    \/ TorPrompt
    \/ PrivateKeyPrompt
    \/ FixedPolicy
    \/ TorShortcut
    \/ ProxyPrompt
    \/ ServerPrompt
    \/ PortPrompt
    \/ EnrollReturned
    \/ Password
    \/ Split
    \/ ResolveAddress
    \/ ProxyChain
    \/ Pin
    \/ TLSPolicy
    \/ ProxyDial
    \/ XMPPDial

Spec == Init /\ [][Next]_vars

\* One call of enroll on its own: ui.Enroll(config) is entered from loadConfig
\* with the new record of line 202, after ParseConfig failed.
EnrollInit ==
    /\ pc = "AccountPrompt"
    /\ configFile \in {"/home/user/.xmpp-client", "/etc/xmpp-client.json"}
    /\ config = ZeroConfig
    /\ parsed = "failed"
    /\ err = "ParseConfig failed"
    /\ ret = NoRet
    /\ enrollRet = "none"
    /\ domain = <<>>
    /\ proxyStr = ""
    /\ readCount = 0
    /\ lastRead = [at |-> "none", err |-> FALSE, line |-> "", chars |-> <<>>]
    /\ resolved = <<>>
    /\ saved = <<>>
    /\ askCalls = 0
    /\ askResult = "none"
    /\ nx = ZeroNX
    /\ steps = <<>>
    /\ transport = "none"
    /\ dials = <<>>

\* the steps of enroll: lines 29-187
EnrollNext ==
    \/ AccountPrompt
    \/ DebugLoggingPrompt
    \/ TorPrompt
    \/ PrivateKeyPrompt
    \/ FixedPolicy
    \/ TorShortcut
    \/ ProxyPrompt
    \/ ServerPrompt
    \/ PortPrompt

\* enroll is sequential code whose calls (term.ReadLine, ioutil.ReadFile,
\* xmpp.Resolve) return: whenever it has a next statement, it executes it
EnrollSpec == EnrollInit /\ [][EnrollNext]_vars /\ WF_vars(EnrollNext)

----------------------------------------------------------------------------
(* Vocabulary of the properties *)

\* number of xmpp.Resolve calls made by one function
ResolveCount(by) == Cardinality({i \in 1..Len(resolved) : resolved[i].by = by})

\* the calls made to dialer.Dial ("dialer.Dial") or to xmpp.Dial ("xmpp.Dial")
DialCalls(fn) == {i \in 1..Len(dials) : dials[i].fn = fn}

\* exactly one '@', with a non-empty part on each side
WellFormedAccount(a) ==
    /\ Cardinality({i \in 1..Len(a) : a[i] = "@"}) = 1
    /\ a[1] # "@"
    /\ a[Len(a)] # "@"

ErrInvalidAccount == "invalid username (want user@domain)"
ErrProxyWithoutServer == "Cannot connect via a proxy without Server and Port being set"
ErrResolve == "Failed to resolve XMPP server"
ErrPinEncoding == "Failed to parse ServerCertificateSHA256 (should be hex string)"
ErrPinLength == "ServerCertificateSHA256 is not 32 bytes long"
ErrProxyDial == "Failed to connect via proxy"
ErrXMPPDial == "Failed to connect to XMPP server"

\* the step of NewXMPPConn an error message belongs to
ErrStep(e) ==
    CASE e = ErrInvalidAccount -> "split"
      [] e \in {ErrProxyWithoutServer, ErrResolve} -> "resolve"
      [] e \in {ErrPinEncoding, ErrPinLength} -> "pin"
      [] e = ErrProxyDial -> "proxyDial"
      [] e = ErrXMPPDial -> "xmppDial"
      [] OTHER -> "proxyChain"

StepOrder == <<"split", "resolve", "proxyChain", "pin", "tlsPolicy", "proxyDial", "xmppDial">>
StepRank(st) == CHOOSE k \in 1..Len(StepOrder) : StepOrder[k] = st

\* NewXMPPConn has been called
InNewXMPPConn == steps # <<>>

----------------------------------------------------------------------------
(* C1 *)

\* C1: a record with a well-formed account, at least one proxy and no explicit
\* server and port makes NewXMPPConn fail with the proxy-without-server error;
\* that call makes no xmpp.Resolve call, no dialer.Dial call and no xmpp.Dial call.
C1_ProxyWithoutServerRefused ==
    (/\ InNewXMPPConn
     /\ WellFormedAccount(config.Account)
     /\ Len(config.Proxies) >= 1
     /\ (config.Server = "" \/ config.Port <= 0))
    => /\ ResolveCount("NewXMPPConn") = 0
       /\ dials = <<>>
       /\ pc \in {"Resolve", "Returned"}
       /\ pc = "Returned" => nx.err = ErrProxyWithoutServer /\ nx.conn = "nil"

C1_Witness ==
    /\ pc = "Returned"
    /\ WellFormedAccount(config.Account)
    /\ Len(config.Proxies) >= 1
    /\ config.Server = ""
    /\ nx.err = ErrProxyWithoutServer
    /\ steps = <<"split", "resolve">>

----------------------------------------------------------------------------
(* C2 *)

\* C2: with Server non-empty and Port > 0, xmpp.Dial gets exactly Server:Port
\* with TrustedAddress true and xmpp.Resolve is not called; in every other case
\* TrustedAddress is false and the address is the one xmpp.Resolve returned;
\* a failed xmpp.Resolve makes the call fail with the resolution error.
C2_AddressResolution ==
    LET explicit == config.Server # "" /\ config.Port > 0
        lookups == {i \in 1..Len(resolved) : resolved[i].by = "NewXMPPConn"}
    IN  InNewXMPPConn =>
        /\ explicit => lookups = {}
        /\ nx.addrTrusted => explicit
        /\ \A i \in DialCalls("xmpp.Dial") :
             IF explicit
             THEN /\ dials[i].addr = <<config.Server, ":", config.Port>>
                  /\ dials[i].xmppConfig.TrustedAddress
             ELSE /\ ~dials[i].xmppConfig.TrustedAddress
                  /\ \E j \in lookups :
                       /\ resolved[j].ok
                       /\ dials[i].addr = <<resolved[j].host, ":", resolved[j].port>>
        /\ \A j \in lookups :
             ~resolved[j].ok => pc = "Returned" /\ nx.err = ErrResolve /\ nx.conn = "nil"

C2_Witness ==
    /\ pc = "Returned"
    /\ config.Server # ""
    /\ config.Port > 0
    /\ DialCalls("xmpp.Dial") # {}
    /\ nx.addrTrusted
    /\ ResolveCount("NewXMPPConn") = 0

----------------------------------------------------------------------------
(* C3 *)

\* C3: when dialer.Dial has opened the transport and NewXMPPConn then returns
\* an error, the transport has been closed.
C3_TransportClosedOnFailure ==
    (pc = "Returned" /\ nx.err # "nil" /\ transport # "none") => transport = "closed"

----------------------------------------------------------------------------
(* C4 *)

\* the step at which a record fails whatever the network does, 0 if none
InputFailsAt(c) ==
    IF Index(c.Account, "@") = 0 THEN 1
    ELSE IF ~(c.Server # "" /\ c.Port > 0) /\ Len(c.Proxies) > 0 THEN 2
    ELSE IF \E i \in 1..Len(c.Proxies) :
              ~URLParse(c.Proxies[i]).ok \/ URLParse(c.Proxies[i]).scheme # "socks5" THEN 3
    ELSE IF Len(c.ServerCertificateSHA256) > 0
            /\ (~DecodeString(c.ServerCertificateSHA256).ok
                \/ Len(c.ServerCertificateSHA256) # 2 * PinLength) THEN 4
    ELSE 0

\* C4: a connection is returned only with a nil error; the steps run in the order
\* split, resolve, proxy chain, pin, TLS policy, proxy dial, xmpp.Dial; the error
\* returned is that of the last step run, and no step runs after the first one
\* the record fails at.
C4_StepOrderAndFirstError ==
    /\ nx.conn # "nil" => nx.err = "nil" /\ pc = "Returned"
    /\ \A i, j \in 1..Len(steps) : i < j => StepRank(steps[i]) < StepRank(steps[j])
    /\ \A i \in 1..Len(steps) :
         \/ StepRank(steps[i]) = i
         \/ steps[i] = "xmppDial" /\ i = StepRank("proxyDial") /\ Len(config.Proxies) = 0
    /\ nx.err # "nil" =>
         /\ pc = "Returned"
         /\ nx.conn = "nil"
         /\ steps[Len(steps)] = ErrStep(nx.err)
    /\ (pc = "Returned" /\ nx.err = "nil") => steps[Len(steps)] = "xmppDial" /\ nx.conn # "nil"
    /\ (InNewXMPPConn /\ InputFailsAt(config) > 0) =>
         /\ \A i \in 1..Len(steps) : StepRank(steps[i]) <= InputFailsAt(config)
         /\ pc = "Returned" => nx.err # "nil"

C4_Witness ==
    /\ pc = "Returned"
    /\ InputFailsAt(config) = 3
    /\ Len(config.ServerCertificateSHA256) = 2 * PinLength - 1
    /\ ErrStep(nx.err) = "proxyChain"
    /\ steps = <<"split", "resolve", "proxyChain">>

----------------------------------------------------------------------------
(* C5 *)

\* C5: the account split of NewXMPPConn succeeds exactly for the strings with
\* exactly one '@' and a non-empty part on each side.
C5_SplitIffWellFormed ==
    InNewXMPPConn => ((nx.err # ErrInvalidAccount) <=> WellFormedAccount(config.Account))

----------------------------------------------------------------------------
(* C6 *)

\* every entry parses as a URL and has a scheme proxy.FromURL knows
AllValidProxies(P) ==
    \A i \in 1..Len(P) : URLParse(P[i]).ok /\ URLParse(P[i]).scheme = "socks5"

\* FromURL(P[0], FromURL(P[1], ... FromURL(P[n-1], Direct)))
RECURSIVE Wrapped(_)
Wrapped(P) ==
    IF Len(P) = 0 THEN Direct
    ELSE FromURL(URLParse(Head(P)), Wrapped(Tail(P))).dialer

\* C6: for a proxy list P of valid entries the dialer built is
\* FromURL(P[0], FromURL(P[1], ... FromURL(P[n-1], Direct))): the last entry is
\* the innermost hop and the first the outermost; with no proxy no dialer is
\* built, nothing is dialed through a proxy and xmpp.Dial gets no transport.
C6_ProxyChainOrder ==
    LET P == config.Proxies
        built == \E i \in 1..Len(steps) : steps[i] = "pin"
    IN  (InNewXMPPConn /\ AllValidProxies(P)) =>
        /\ ~(nx.err # "nil" /\ ErrStep(nx.err) = "proxyChain")
        /\ built => nx.dialer = (IF Len(P) = 0 THEN NilDialer ELSE Wrapped(P))
        /\ built /\ Len(P) > 0 =>
             /\ Len(nx.dialer.chain) = Len(P)
             /\ \A k \in 1..Len(P) : nx.dialer.chain[k] = P[k]
        /\ \A i \in DialCalls("dialer.Dial") : dials[i].chain = P /\ Len(P) > 0
        /\ Len(P) = 0 =>
             /\ nx.dialer.isNil
             /\ DialCalls("dialer.Dial") = {}
             /\ \A i \in DialCalls("xmpp.Dial") : dials[i].xmppConfig.Conn = "nil"

C6_Witness ==
    /\ pc = "Returned"
    /\ Len(config.Proxies) = 2
    /\ config.Proxies[1] # config.Proxies[2]
    /\ AllValidProxies(config.Proxies)
    /\ DialCalls("dialer.Dial") # {}
    /\ nx.dialer.chain = config.Proxies

----------------------------------------------------------------------------
(* C7 *)

HexDigitsLower == <<"0","1","2","3","4","5","6","7","8","9","a","b","c","d","e","f">>
HexDigitsUpper == <<"0","1","2","3","4","5","6","7","8","9","A","B","C","D","E","F">>
IsHexDigit(c) == \E k \in 1..16 : HexDigitsLower[k] = c \/ HexDigitsUpper[k] = c
HexDigitValue(c) == (CHOOSE k \in 1..16 : HexDigitsLower[k] = c \/ HexDigitsUpper[k] = c) - 1

\* C7: once the earlier steps have succeeded, a non-empty pin that is not valid
\* hex fails with the pin-encoding error, valid hex of another length than 32
\* bytes fails with the pin-length error, 64 hex digits reach the xmpp
\* configuration as their 32 decoded bytes, and an empty pin never fails and
\* gives no fingerprint.
C7_PinDecoding ==
    LET pin == config.ServerCertificateSHA256
        isHex == Len(pin) % 2 = 0 /\ \A i \in 1..Len(pin) : IsHexDigit(pin[i])
        pinErr == nx.err \in {ErrPinEncoding, ErrPinLength}
        pinRun == \E i \in 1..Len(steps) : steps[i] = "pin"
        policyRun == \E i \in 1..Len(steps) : steps[i] = "tlsPolicy"
    IN  pinRun =>
        /\ (pin # <<>> /\ ~isHex) => pc = "Returned" /\ nx.err = ErrPinEncoding
        /\ (pin # <<>> /\ isHex /\ Len(pin) # 2 * PinLength) =>
             pc = "Returned" /\ nx.err = ErrPinLength
        /\ pin = <<>> =>
             /\ ~pinErr
             /\ nx.certSHA256 = <<>>
             /\ \A i \in DialCalls("xmpp.Dial") :
                  dials[i].xmppConfig.ServerCertificateSHA256 = <<>>
        /\ (isHex /\ Len(pin) = 2 * PinLength) =>
             /\ ~pinErr
             /\ Len(nx.certSHA256) = PinLength
             /\ \A k \in 1..PinLength :
                  nx.certSHA256[k] =
                      16 * HexDigitValue(pin[2 * k - 1]) + HexDigitValue(pin[2 * k])
             /\ policyRun => nx.xmppConfig.ServerCertificateSHA256 = nx.certSHA256
             /\ \A i \in DialCalls("xmpp.Dial") :
                  dials[i].xmppConfig.ServerCertificateSHA256 = nx.certSHA256

C7_Witness ==
    /\ pc = "Returned"
    /\ Len(config.ServerCertificateSHA256) = 2 * PinLength
    /\ \E i \in DialCalls("xmpp.Dial") :
         /\ Len(dials[i].xmppConfig.ServerCertificateSHA256) = PinLength
         /\ dials[i].xmppConfig.ServerCertificateSHA256[1] = 171
         /\ dials[i].xmppConfig.ServerCertificateSHA256[PinLength] = 144

----------------------------------------------------------------------------
(* C8 *)

EnrollOrder ==
    <<"AccountPrompt", "DebugLoggingPrompt", "TorPrompt", "PrivateKeyPrompt", "FixedPolicy",
      "TorShortcut", "ProxyPrompt", "ServerPrompt", "PortPrompt">>
EnrollStates == {EnrollOrder[k] : k \in 1..Len(EnrollOrder)}
EnrollRank(st) == CHOOSE k \in 1..Len(EnrollOrder) : EnrollOrder[k] = st

C8_Step ==
    /\ pc = "TorShortcut" =>
         IF config.UseTor /\ domain \in {CCC, Riseup, Calyx, OtrIm, Wtf}
         THEN /\ config' = [config EXCEPT !.Server = knownTorDomain[domain],
                                          !.Port = 5222,
                                          !.Proxies = <<"socks5://127.0.0.1:9050">>]
              /\ domain = Riseup => config'.Server = "4cjw6cwpeaeppfqz.onion"
              /\ enrollRet' = "true"
              /\ pc' = "EnrollReturned"
              /\ readCount' = readCount
              /\ resolved' = resolved
         ELSE /\ pc' = "ProxyPrompt"
              /\ config' = config
              /\ enrollRet' = "none"
    /\ enrollRet # "none" =>
         /\ readCount' = readCount
         /\ pc' \notin EnrollStates
         /\ enrollRet' = enrollRet

\* C8: at the Tor shortcut, with Tor enabled and the account's domain in the
\* known-domain table, enroll sets Server to the mapped hidden service, Port to
\* 5222 and Proxies to the one local SOCKS5 URL and returns true, reading no
\* line and making no lookup then or later; otherwise it goes on to the proxy
\* prompt with the record unchanged.
C8_TorShortcut == [][C8_Step]_vars

C8_Witness ==
    /\ enrollRet = "true"
    /\ config.UseTor
    /\ domain = Riseup
    /\ config.Server = "4cjw6cwpeaeppfqz.onion"
    /\ config.Port = 5222
    /\ config.Proxies = <<"socks5://127.0.0.1:9050">>
    /\ resolved = <<>>

----------------------------------------------------------------------------
(* C9 *)

\* C9: config.Save is never called after Enroll returned false, and loadConfig
\* then returns an error without asking for a password; after Enroll returned
\* true it is called exactly once, on the record with Filename set to the config
\* path, before the password is asked for; when ParseConfig succeeded neither
\* Enroll nor Save is called.
C9_SaveOnlyAfterEnroll ==
    /\ Len(saved) <= 1
    /\ saved # <<>> => enrollRet = "true" /\ parsed = "failed"
    /\ enrollRet = "false" =>
         /\ saved = <<>>
         /\ askCalls = 0
         /\ pc \in {"EnrollReturned", "loadConfigReturned"}
         /\ ret.returned => ret.err # "nil"
    /\ (enrollRet = "true" /\ pc # "EnrollReturned") =>
         /\ Len(saved) = 1
         /\ saved[1].Filename = configFile
         /\ saved[1].Filename # ""
         /\ saved[1] = config
    /\ (enrollRet = "true" /\ pc \in {"EnrollReturned", "Password"}) => askCalls = 0
    /\ parsed = "ok" => saved = <<>> /\ enrollRet = "none" /\ readCount = 0

C9_Witness ==
    /\ pc = "loadConfigReturned"
    /\ enrollRet = "true"
    /\ Len(saved) = 1
    /\ askCalls = 1
    /\ saved[1].Filename = configFile

----------------------------------------------------------------------------
(* C10 *)

C10_Step ==
    /\ pc \in EnrollStates =>
         \/ pc' = pc
         \/ pc' = "EnrollReturned"
         \/ pc' \in EnrollStates /\ EnrollRank(pc') = EnrollRank(pc) + 1
    /\ (pc \notin EnrollStates /\ pc' \in EnrollStates) =>
         pc = "ParseConfig" /\ pc' = "AccountPrompt"
    /\ (pc = "ProxyPrompt" /\ pc' = "ServerPrompt") =>
         proxyStr' # "" /\ config'.Proxies = <<proxyStr'>>
    /\ (pc = "ProxyPrompt" /\ pc' # pc /\ config'.Proxies = <<>>) => pc' = "EnrollReturned"
    /\ pc' \in {"ServerPrompt", "PortPrompt"} => Len(config'.Proxies) > 0

\* C10: enroll goes through AccountPrompt, DebugLoggingPrompt, TorPrompt,
\* PrivateKeyPrompt, the fixed-policy assignment, the Tor shortcut, ProxyPrompt,
\* the server prompt and the port prompt in this order, each step staying where
\* it is, moving to the next state or returning; the server and port prompts
\* are entered only with a proxy configured.
C10_EnrollOrder == [][C10_Step]_vars

C10_Witness ==
    /\ pc = "EnrollReturned"
    /\ enrollRet = "true"
    /\ config.Proxies = <<"socks5://10.0.0.1:1080">>
    /\ config.Server = "xmpp.example.com"
    /\ config.Port = 443

----------------------------------------------------------------------------
(* The prompts of enroll, one by one *)

\* enroll has issued at least one prompt
InEnroll == lastRead.at # "none"

\* the lookups enroll made that failed
FailedEnrollLookups == {i \in 1..Len(resolved) : resolved[i].by = "enroll" /\ ~resolved[i].ok}

\* the proxy answers of the model that are URLs of a scheme a proxy can be built for
Socks5Answers == {"socks5://127.0.0.1:9050", "socks5://10.0.0.1:1080"}

\* the last line read was a proxy answer that is not empty and is no usable proxy
BadProxyAnswer ==
    /\ lastRead.at = "ProxyPrompt"
    /\ ~lastRead.err
    /\ lastRead.line # ""
    /\ lastRead.line \notin Socks5Answers

\* C11 as stated: inside enroll a directory-lookup failure and a proxy-parse
\* failure (the answer is no URL, or no proxy can be built from it) each make
\* enroll return false instead of asking again.
C11_NetworkFailuresAbort ==
    /\ FailedEnrollLookups # {} => enrollRet = "false"
    /\ BadProxyAnswer => enrollRet = "false"

\* C11 amended: a directory-lookup failure makes enroll return false, the
\* server prompt being the last prompt issued; a proxy answer that is no URL or
\* that no proxy can be built from does not end enroll: nothing is recorded and
\* the proxy prompt is issued again.
C11_LookupAbortsProxyReprompts ==
    /\ FailedEnrollLookups # {} =>
         /\ enrollRet = "false"
         /\ lastRead.at = "ServerPrompt"
         /\ ~lastRead.err
         /\ lastRead.line = ""
         /\ Len(resolved) = 1
    /\ BadProxyAnswer =>
         /\ pc = "ProxyPrompt"
         /\ enrollRet = "none"
         /\ config.Proxies = <<>>

C11_Witness ==
    /\ BadProxyAnswer
    /\ lastRead.line = ":bad"
    /\ pc = "ProxyPrompt"
    /\ readCount > 5

\* the number of '@' in an account line
AtCount(a) == Cardinality({i \in 1..Len(a) : a[i] = "@"})

\* the account loop of enroll has been left towards the next prompt
PastAccountPrompt ==
    \/ lastRead.at \notin {"none", "AccountPrompt"}
    \/ lastRead.at = "AccountPrompt" /\ pc = "DebugLoggingPrompt"

\* C12: the AccountPrompt of enroll leaves its loop towards the next prompt only
\* when the line read is non-empty and contains exactly one '@'; a line without
\* that form asks again; a failed read or an empty line makes enroll return
\* false with no later prompt issued.
C12_AccountPromptExit ==
    /\ PastAccountPrompt => Len(config.Account) > 0 /\ AtCount(config.Account) = 1
    /\ lastRead.at = "AccountPrompt" =>
         IF lastRead.err \/ Len(lastRead.chars) = 0
         THEN enrollRet = "false"
         ELSE IF AtCount(lastRead.chars) = 1
              THEN pc = "DebugLoggingPrompt" /\ enrollRet = "none"
              ELSE pc = "AccountPrompt" /\ enrollRet = "none"

\* the prompts of enroll
EnrollPrompts ==
    {"AccountPrompt", "DebugLoggingPrompt", "TorPrompt", "PrivateKeyPrompt",
     "ProxyPrompt", "ServerPrompt", "PortPrompt"}

\* C13: at the ProxyPrompt of enroll an empty answer ends the step with no
\* proxy configured if and only if Tor is disabled; with Tor enabled an empty
\* answer is replaced by "socks5://127.0.0.1:9050", which is recorded as the
\* single proxy; a non-empty answer is recorded as the single proxy only if it
\* parses as a URL and a proxy can be built from it, and is asked again otherwise.
C13_ProxyPrompt ==
    /\ InEnroll =>
         /\ Len(config.Proxies) <= 1
         /\ \A i \in 1..Len(config.Proxies) : config.Proxies[i] \in Socks5Answers
    /\ lastRead.at = "ProxyPrompt" /\ ~lastRead.err =>
         IF lastRead.line = ""
         THEN IF config.UseTor
              THEN /\ config.Proxies = <<"socks5://127.0.0.1:9050">>
                   /\ pc = "ServerPrompt"
                   /\ enrollRet = "none"
              ELSE /\ config.Proxies = <<>>
                   /\ enrollRet = "true"
                   /\ pc \notin EnrollPrompts
         ELSE IF lastRead.line \in Socks5Answers
              THEN /\ config.Proxies = <<lastRead.line>>
                   /\ pc = "ServerPrompt"
                   /\ enrollRet = "none"
              ELSE /\ config.Proxies = <<>>
                   /\ pc = "ProxyPrompt"
                   /\ enrollRet = "none"

C13_Witness ==
    /\ lastRead.at = "ProxyPrompt"
    /\ ~lastRead.err
    /\ lastRead.line = ""
    /\ config.UseTor
    /\ config.Proxies = <<"socks5://127.0.0.1:9050">>
    /\ pc = "ServerPrompt"

\* the decimal digits, "0" first
DecimalDigits == <<"0", "1", "2", "3", "4", "5", "6", "7", "8", "9">>

\* a non-empty string of decimal digits
IsDecimal(l) ==
    /\ Len(l) > 0
    /\ \A i \in 1..Len(l) : \E d \in 1..Len(DecimalDigits) : DecimalDigits[d] = l[i]

\* the number a string of decimal digits denotes
RECURSIVE DecimalValue(_)
DecimalValue(l) ==
    IF Len(l) = 0 THEN 0
    ELSE 10 * DecimalValue(SubSeq(l, 1, Len(l) - 1))
         + (CHOOSE d \in 0..9 : DecimalDigits[d + 1] = l[Len(l)])

\* a port answer that denotes an integer in 1..65535
PortAnswerInRange(l) == IsDecimal(l) /\ DecimalValue(l) \in 1..65535

\* the lookups enroll made
EnrollLookups == {i \in 1..Len(resolved) : resolved[i].by = "enroll"}

\* C14: in the server/port step of enroll, entered with a proxy configured,
\* xmpp.Resolve is called only when the server answer is empty and at most once
\* per run; on success the record takes the looked-up host and port, on failure
\* enroll returns false. A non-empty server answer makes no lookup and leads to
\* the port prompt, which takes an empty answer as 5222 and asks again on every
\* answer that is not an integer in 1..65535, so that it ends with Port in
\* 1..65535.
C14_ServerPortStep ==
    /\ pc \in {"ServerPrompt", "PortPrompt"} => Len(config.Proxies) = 1
    /\ Cardinality(EnrollLookups) <= 1
    /\ \A i \in EnrollLookups :
         /\ lastRead.at = "ServerPrompt" /\ ~lastRead.err /\ lastRead.line = ""
         /\ resolved[i].domain = domain
         /\ IF resolved[i].ok
            THEN /\ enrollRet = "true"
                 /\ config.Server = resolved[i].host
                 /\ config.Port = resolved[i].port
            ELSE enrollRet = "false"
    /\ lastRead.at = "ServerPrompt" /\ ~lastRead.err =>
         IF lastRead.line = ""
         THEN Cardinality(EnrollLookups) = 1 /\ pc \notin EnrollPrompts
         ELSE /\ EnrollLookups = {}
              /\ config.Server = lastRead.line
              /\ pc = "PortPrompt"
              /\ enrollRet = "none"
    /\ lastRead.at = "PortPrompt" =>
         /\ EnrollLookups = {}
         /\ config.Server # ""
         /\ enrollRet = "true" => config.Port \in 1..65535
         /\ ~lastRead.err =>
              IF Len(lastRead.chars) = 0
              THEN enrollRet = "true" /\ config.Port = 5222
              ELSE IF PortAnswerInRange(lastRead.chars)
                   THEN enrollRet = "true" /\ config.Port = DecimalValue(lastRead.chars)
                   ELSE enrollRet = "none" /\ pc = "PortPrompt"

C14_Witness ==
    /\ lastRead.at = "PortPrompt"
    /\ ~lastRead.err
    /\ lastRead.chars = <<"6", "5", "5", "3", "6">>
    /\ pc = "PortPrompt"
    /\ config.Server = "xmpp.example.com"

\* the answers coyconf.ParseYes takes as affirmative
Affirmative == {"y", "Y", "yes", "Yes"}

\* C15: at the DebugLoggingPrompt and the TorPrompt of enroll a failed read or
\* a non-affirmative answer means "no" and never cancels enrollment: the wizard
\* proceeds to the next prompt, the debug-log path is set only after an
\* affirmative answer read successfully, and UseTor is true only after an
\* affirmative answer read successfully.
C15_YesNoPrompts ==
    /\ lastRead.at = "DebugLoggingPrompt" =>
         /\ pc = "TorPrompt"
         /\ enrollRet = "none"
         /\ config.RawLogFile =
              (IF ~lastRead.err /\ lastRead.line \in Affirmative
               THEN "/tmp/xmpp-client-debug.log" ELSE "")
    /\ lastRead.at = "TorPrompt" =>
         /\ pc = "PrivateKeyPrompt"
         /\ enrollRet = "none"
         /\ config.UseTor <=> (~lastRead.err /\ lastRead.line \in Affirmative)
    /\ InEnroll /\ config.RawLogFile # "" => config.RawLogFile = "/tmp/xmpp-client-debug.log"
    /\ InEnroll /\ lastRead.at \in {"AccountPrompt", "DebugLoggingPrompt"} => ~config.UseTor

C15_Witness ==
    /\ lastRead.at = "TorPrompt"
    /\ lastRead.err
    /\ ~config.UseTor
    /\ config.RawLogFile = "/tmp/xmpp-client-debug.log"
    /\ pc = "PrivateKeyPrompt"

\* the serializations of the keys the model can import or generate
SerializedKeys == {"imported:otr.key", "generated"}

\* C16: at the PrivateKeyPrompt of enroll a failed line read makes enroll return
\* false; a non-empty answer naming a file that cannot be read or imported asks
\* again; an empty answer generates a fresh key. The loop is left towards the
\* later steps only after a successful import or a generation, and the record's
\* PrivateKey is then the serialization of that key.
C16_PrivateKeyPrompt ==
    /\ lastRead.at = "PrivateKeyPrompt" =>
         IF lastRead.err
         THEN enrollRet = "false" /\ config.PrivateKey = ""
         ELSE IF lastRead.line = ""
              THEN /\ config.PrivateKey = "generated"
                   /\ pc # "PrivateKeyPrompt"
                   /\ enrollRet # "false"
              ELSE IF lastRead.line = "otr.key"
                   THEN /\ config.PrivateKey = "imported:otr.key"
                        /\ pc # "PrivateKeyPrompt"
                        /\ enrollRet # "false"
                   ELSE /\ config.PrivateKey = ""
                        /\ pc = "PrivateKeyPrompt"
                        /\ enrollRet = "none"
    /\ lastRead.at \in {"AccountPrompt", "DebugLoggingPrompt", "TorPrompt"} =>
         config.PrivateKey = ""
    /\ lastRead.at \in {"ProxyPrompt", "ServerPrompt", "PortPrompt"} =>
         config.PrivateKey \in SerializedKeys
    /\ enrollRet = "true" => config.PrivateKey \in SerializedKeys

C16_Witness ==
    /\ lastRead.at = "PrivateKeyPrompt"
    /\ ~lastRead.err
    /\ lastRead.line = "garbage.key"
    /\ pc = "PrivateKeyPrompt"
    /\ readCount > 4

----------------------------------------------------------------------------
(* TLS policy and transport of NewXMPPConn *)

\* the TLS-policy step of NewXMPPConn has run
TLSPolicyDone == \E i \in 1..Len(steps) : steps[i] = "tlsPolicy"

\* C17: in NewXMPPConn the TLS root pool is replaced by a pool holding only the
\* embedded CACert root exactly when the account domain is "jabber.ccc.de" and
\* the embedded DER decodes; a decode failure never makes NewXMPPConn fail: the
\* override is skipped and the call continues with the default root pool; for
\* every other domain the root pool is left at its default.
C17_CACertRootPool ==
    /\ ~TLSPolicyDone => nx.caCertErr = "unset"
    /\ TLSPolicyDone =>
         /\ nx.err # "nil" => ErrStep(nx.err) \in {"proxyDial", "xmppDial"}
         /\ nx.caCertErr # "unset" <=> nx.domain = "jabber.ccc.de"
         /\ nx.xmppConfig.RootCAs =
              (IF nx.domain = "jabber.ccc.de" /\ nx.caCertErr = "nil"
               THEN "CACert" ELSE "default")
         /\ pc \in {"ProxyDial", "XMPPDial", "Returned"}
         /\ \A i \in DialCalls("xmpp.Dial") :
              dials[i].xmppConfig.RootCAs = nx.xmppConfig.RootCAs

C17_Witness ==
    /\ nx.domain = "jabber.ccc.de"
    /\ nx.caCertErr = "x509 error"
    /\ nx.xmppConfig.RootCAs = "default"
    /\ nx.err = "nil"
    /\ nx.conn # "nil"

\* C18: in NewXMPPConn a pre-opened transport is handed to xmpp.Dial if and only
\* if the record's proxy list is non-empty: with at least one proxy the composed
\* dialer opens a stream to the address later passed to xmpp.Dial, before
\* xmpp.Dial is called, and a failure of that dial ends the call with a
\* transport error without xmpp.Dial being called; with an empty proxy list no
\* transport is pre-opened. A proxy dial and an xmpp.Resolve call never both
\* occur in one NewXMPPConn call.
C18_PreOpenedTransport ==
    /\ \A i \in DialCalls("xmpp.Dial") :
         /\ dials[i].xmppConfig.Conn # "nil" <=> Len(config.Proxies) > 0
         /\ Len(config.Proxies) > 0 =>
              /\ dials[i].xmppConfig.Conn = "transport"
              /\ \E j \in DialCalls("dialer.Dial") :
                   /\ j < i
                   /\ dials[j].addr = dials[i].addr
                   /\ Len(dials[j].chain) = Len(config.Proxies)
              /\ nx.err # ErrProxyDial
    /\ \A j \in DialCalls("dialer.Dial") :
         /\ Len(config.Proxies) > 0
         /\ ResolveCount("NewXMPPConn") = 0
         /\ dials[j].addr = nx.addr
    /\ Cardinality(DialCalls("dialer.Dial")) <= 1
    /\ Cardinality(DialCalls("xmpp.Dial")) <= 1
    /\ nx.err = ErrProxyDial =>
         /\ pc = "Returned"
         /\ nx.conn = "nil"
         /\ DialCalls("dialer.Dial") # {}
         /\ DialCalls("xmpp.Dial") = {}
         /\ transport = "none"
    /\ (InNewXMPPConn /\ Len(config.Proxies) = 0) =>
         /\ DialCalls("dialer.Dial") = {}
         /\ transport = "none"
         /\ nx.xmppConfig.Conn = "nil"
    /\ transport # "none" => DialCalls("dialer.Dial") # {}

C18_Witness ==
    /\ Len(config.Proxies) = 2
    /\ DialCalls("dialer.Dial") = {1}
    /\ DialCalls("xmpp.Dial") = {2}
    /\ dials[2].xmppConfig.Conn = "transport"
    /\ nx.err = "nil"
    /\ nx.conn # "nil"

----------------------------------------------------------------------------
(* Records produced by enroll *)

\* every successful lookup of enroll returned a non-empty host and a non-zero port
LookupsWellFormed ==
    \A i \in EnrollLookups : resolved[i].ok => resolved[i].host # "" /\ resolved[i].port # 0

\* C19: every record for which enroll returns true and whose proxy list is
\* non-empty has a non-empty Server and a Port in 1..65535, provided a
\* successful directory lookup returns a non-empty host and a non-zero port;
\* hence NewXMPPConn applied to a record produced by a successful enroll never
\* fails with the proxy-without-explicit-server error and never calls
\* xmpp.Resolve while a proxy is configured.
C19_EnrolledProxyRecordHasServer ==
    (enrollRet = "true" /\ LookupsWellFormed) =>
        /\ Len(config.Proxies) > 0 =>
             /\ config.Server # ""
             /\ config.Port \in 1..65535
             /\ ResolveCount("NewXMPPConn") = 0
        /\ nx.err # ErrProxyWithoutServer

C19_Witness ==
    /\ enrollRet = "true"
    /\ Len(config.Proxies) > 0
    /\ \E i \in EnrollLookups : resolved[i].ok /\ resolved[i].host # ""
    /\ config.Port = 5269
    /\ "proxyDial" \in {steps[k] : k \in 1..Len(steps)}
    /\ ResolveCount("NewXMPPConn") = 0

\* C20: whenever enroll returns true with UseTor = true the record's proxy list
\* has exactly one entry, set by the Tor shortcut or by the proxy prompt; enroll
\* never returns true with Tor enabled and an empty proxy list, so a Tor-enabled
\* record produced by the wizard never leads to a direct, unproxied connection.
C20_TorRecordHasProxy ==
    (enrollRet = "true" /\ config.UseTor) =>
        /\ Len(config.Proxies) = 1
        /\ config.Proxies[1] \in Socks5Answers
        /\ ResolveCount("NewXMPPConn") = 0
        /\ \A i \in DialCalls("xmpp.Dial") :
             /\ dials[i].xmppConfig.Conn = "transport"
             /\ \E j \in DialCalls("dialer.Dial") : j < i /\ dials[j].chain = config.Proxies

C20_Witness ==
    /\ enrollRet = "true"
    /\ config.UseTor
    /\ lastRead.at = "PortPrompt"
    /\ config.Proxies = <<"socks5://127.0.0.1:9050">>
    /\ DialCalls("xmpp.Dial") # {}
    /\ nx.conn # "nil"

----------------------------------------------------------------------------
(* Termination of enroll *)

\* the prompts of enroll that are retry loops
RetryLoops == {"AccountPrompt", "PrivateKeyPrompt", "ProxyPrompt", "PortPrompt"}

\* the line reader has handed out its last line: every further read fails
ReaderExhausted == readCount >= MaxReads

\* one step of enroll: a step taken at a prompt reads exactly one line, and a
\* step that issues no prompt reads none
C21_Step ==
    /\ pc \in EnrollPrompts => readCount' = readCount + 1
    /\ pc \notin EnrollPrompts => readCount' = readCount
    /\ (pc \in RetryLoops /\ pc' = pc) => ~lastRead'.err /\ readCount < MaxReads

\* C21: enroll terminates on every input that is a finite sequence of lines
\* followed by a line reader that fails on every further read: each iteration
\* of each retry loop consumes exactly one line, so no loop spins without
\* reading, enroll always returns, and once the reader fails persistently it
\* returns false unless it had already finished prompting.
C21_EnrollTerminates ==
    /\ [][C21_Step]_vars
    /\ <>(pc = "EnrollReturned" /\ enrollRet # "none")
    /\ (ReaderExhausted /\ pc \in EnrollPrompts) ~> (enrollRet = "false")
    /\ [](enrollRet # "none" => pc = "EnrollReturned")

C21_Witness ==
    /\ pc = "EnrollReturned"
    /\ enrollRet = "false"
    /\ lastRead.at = "PortPrompt"
    /\ lastRead.err
    /\ readCount = MaxReads + 1

----------------------------------------------------------------------------
(* The error loadConfig returns *)

\* coyconf.FindConfigFile was called and failed: no file was named and none parsed
FindFailed == ret.returned /\ configFile = "" /\ parsed = "none"

\* C22: loadConfig returns a non-nil error exactly when locating the config
\* file failed, enrollment returned false, or asking for the password failed;
\* after ParseConfig failed and Enroll then returned true, the earlier parse
\* error is never the error loadConfig returns, whether the password came from
\* the record or from the prompt.
C22_LoadConfigError ==
    ret.returned =>
        /\ ret.err # "nil" <=> (FindFailed \/ enrollRet = "false" \/ askResult = "failed")
        /\ FindFailed => ret.err = "FindConfigFile failed" /\ ret.config = "nil"
        /\ enrollRet = "false" => ret.err = "Failed to create config"
        /\ askResult = "failed" => ret.err = "AskForPassword failed"
        /\ ret.err # "ParseConfig failed"
        /\ (parsed = "failed" /\ enrollRet = "true") =>
             /\ ret.err \in {"nil", "AskForPassword failed"}
             /\ ret.err = "nil" <=> ret.password # ""
        /\ (askResult = "none" /\ ret.err = "nil") => ret.password = config.Password

C22_Witness ==
    /\ ret.returned
    /\ parsed = "failed"
    /\ enrollRet = "true"
    /\ askResult = "ok"
    /\ ret.err = "nil"
    /\ ret.password = "typed"

====
